---------------------------- MODULE Spec2Model ----------------------------
(***************************************************************************)
(* A model of the FileConverter classes of @arctics/utils                  *)
(* (src/src/lib/FileConvertor.ts).  The file holds two classes named       *)
(* FileConverter: the path-writing one (lines 8-184, Node only: fs and     *)
(* axios) and the dual-environment one (lines 190-583, browser or Node).   *)
(* The Localization class (src/src/lib/Localization.ts) is modelled next   *)
(* to them, with its own specification SpecLoc: the two share no state.    *)
(*                                                                         *)
(* Bytes are integers 0..255, a byte sequence is a sequence of bytes, and  *)
(* a text is a sequence of one-character strings.  A JavaScript "binary    *)
(* string" (the argument of btoa, the result of atob) is a sequence of     *)
(* character codes.                                                        *)
(*                                                                         *)
(* The host constructors the code names (Buffer, File, Blob,               *)
(* ReadableStream, fetch, btoa, atob) are taken to exist in both           *)
(* environments, as they do where the repository's tests run; engine       *)
(* resource limits (argument count of a spread call, maximum string and    *)
(* buffer sizes) are outside the model.                                    *)
(***************************************************************************)
EXTENDS Integers, Sequences, FiniteSets, TLC

(***************************************************************************)
(* Bounds of the model.                                                    *)
(***************************************************************************)
\* longest byte sequence given to a conversion
MaxLen == 3
\* most chunks a stream emits before it ends
MaxChunks == 3
\* most stream conversions in flight together
MaxCalls == 2

\* sample byte values: 0, one below 16 (a leading 0 in hex), one with two
\* letter digits, and the largest (>= 128)
ByteSamples == {0, 10, 171, 255}
\* the byte values streams emit
StreamBytes == {10, 255}

RECURSIVE SeqsUpTo(_, _)
SeqsUpTo(S, n) ==
    IF n = 0 THEN {<< >>}
    ELSE LET shorter == SeqsUpTo(S, n - 1)
         IN  shorter \cup {Append(s, x) : s \in {t \in shorter : Len(t) = n - 1}, x \in S}

ByteSeqs == SeqsUpTo(ByteSamples, MaxLen)

(***************************************************************************)
(* Generic helpers on sequences.                                           *)
(***************************************************************************)
RECURSIVE Flatten(_)
Flatten(ss) == IF ss = << >> THEN << >> ELSE Head(ss) \o Flatten(Tail(ss))

RECURSIVE SumLen(_)
SumLen(ss) == IF ss = << >> THEN 0 ELSE Len(Head(ss)) + SumLen(Tail(ss))

IndexOf(seq, c) ==
    IF \E i \in 1..Len(seq) : seq[i] = c
    THEN CHOOSE i \in 1..Len(seq) : seq[i] = c
    ELSE 0

\* String.prototype.substr(start, length), 0-based start
substr(s, start, length) ==
    SubSeq(s, start + 1, IF start + length > Len(s) THEN Len(s) ELSE start + length)

(***************************************************************************)
(* Hexadecimal.                                                            *)
(***************************************************************************)
HexChars == <<"0", "1", "2", "3", "4", "5", "6", "7",
              "8", "9", "a", "b", "c", "d", "e", "f">>
UpperHexChars == <<"0", "1", "2", "3", "4", "5", "6", "7",
                   "8", "9", "A", "B", "C", "D", "E", "F">>

\* value of a hex digit of either case, -1 for any other character
unhex(c) ==
    IF IndexOf(HexChars, c) > 0 THEN IndexOf(HexChars, c) - 1
    ELSE IF IndexOf(UpperHexChars, c) > 0 THEN IndexOf(UpperHexChars, c) - 1
    ELSE -1

\* a well-formed hex text: an even number of hex digits
IsHexText(t) == Len(t) % 2 = 0 /\ \A i \in 1..Len(t) : unhex(t[i]) >= 0

\* Buffer.prototype.toString('hex'): two lowercase digits per byte
BufferToHexDropsZero(bytes) ==
    Flatten([i \in 1..Len(bytes) |->
                IF bytes[i] < 16 THEN <<HexChars[bytes[i] + 1]>>
                ELSE <<HexChars[(bytes[i] \div 16) + 1], HexChars[(bytes[i] % 16) + 1]>>])
BufferToHex(bytes) ==
    Flatten([i \in 1..Len(bytes) |->
                <<HexChars[(bytes[i] \div 16) + 1], HexChars[(bytes[i] % 16) + 1]>>])

\* Buffer.from(s, 'hex'): decodes floor(length / 2) pairs and stops, without
\* throwing, at the first pair that is not two hex digits
RECURSIVE hexDecodeFrom(_, _)
hexDecodeFrom(s, i) ==
    IF i > Len(s) \div 2 THEN << >>
    ELSE LET a == unhex(s[2 * i - 1])
             b == unhex(s[2 * i])
         IN  IF a < 0 \/ b < 0 THEN << >>
             ELSE <<a * 16 + b>> \o hexDecodeFrom(s, i + 1)
BufferFromHex(s) == hexDecodeFrom(s, 1)

\* Number.prototype.toString(16) of an integer 0..255
NumberToString16Upper(n) ==
    IF n < 16 THEN <<UpperHexChars[n + 1]>>
    ELSE <<UpperHexChars[(n \div 16) + 1], UpperHexChars[(n % 16) + 1]>>
NumberToString16(n) ==
    IF n < 16 THEN <<HexChars[n + 1]>>
    ELSE <<HexChars[(n \div 16) + 1], HexChars[(n % 16) + 1]>>

\* String.prototype.padStart(targetLength, fill) with a one-character fill
RECURSIVE padStart(_, _, _)
padStart(s, targetLength, fill) ==
    IF Len(s) >= targetLength THEN s ELSE padStart(<<fill>> \o s, targetLength, fill)

\* arrayBufferToHex: map each byte to toString(16).padStart(2, '0'), join('')
arrayBufferToHexNoPad(bytes) ==
    Flatten([i \in 1..Len(bytes) |-> NumberToString16(bytes[i])])
arrayBufferToHex(bytes) ==
    Flatten([i \in 1..Len(bytes) |-> padStart(NumberToString16(bytes[i]), 2, "0")])

\* parseInt(str, 16): leading white space is skipped, then a sign, then an
\* optional 0x; the longest prefix of hex digits is the value, and NaN when
\* that prefix is empty
WhiteSpace == {" "}
RECURSIVE SkipWhiteSpace(_)
SkipWhiteSpace(s) ==
    IF s # << >> /\ Head(s) \in WhiteSpace THEN SkipWhiteSpace(Tail(s)) ELSE s
RECURSIVE HexPrefixValue(_, _)
HexPrefixValue(s, acc) ==
    IF s = << >> \/ unhex(Head(s)) < 0 THEN acc
    ELSE HexPrefixValue(Tail(s), acc * 16 + unhex(Head(s)))
parseInt16(str) ==
    LET s0     == SkipWhiteSpace(str)
        neg    == s0 # << >> /\ Head(s0) = "-"
        s1     == IF s0 # << >> /\ Head(s0) \in {"-", "+"} THEN Tail(s0) ELSE s0
        s2     == IF Len(s1) >= 2 /\ s1[1] = "0" /\ s1[2] \in {"x", "X"}
                  THEN SubSeq(s1, 3, Len(s1)) ELSE s1
        digits == s2 # << >> /\ unhex(Head(s2)) >= 0
        v      == HexPrefixValue(s2, 0)
    IN  [nan |-> ~digits, val |-> IF ~digits THEN 0 ELSE IF neg THEN 0 - v ELSE v]

\* storing a Number into a Uint8Array element: NaN becomes 0, else modulo 256
ToUint8(num) == IF num.nan THEN 0 ELSE num.val % 256

\* uint8Array[index] = num; an index outside the array is ignored
TypedArraySet(arr, index, num) ==
    IF index < Len(arr) THEN [arr EXCEPT ![index + 1] = ToUint8(num)] ELSE arr

\* hexToArrayBuffer: new ArrayBuffer(hex.length / 2) truncates the length to
\* an integer; the loop stores parseInt of every two characters
RECURSIVE hexToArrayBufferLoop(_, _, _)
hexToArrayBufferLoop(hex, i, uint8Array) ==
    IF i >= Len(hex) THEN uint8Array
    ELSE hexToArrayBufferLoop(hex, i + 2,
             TypedArraySet(uint8Array, i \div 2, parseInt16(substr(hex, i, 2))))
hexToArrayBuffer(hex) ==
    hexToArrayBufferLoop(hex, 0, [k \in 1..(Len(hex) \div 2) |-> 0])

(***************************************************************************)
(* Base64.                                                                 *)
(***************************************************************************)
B64Chars == <<"A", "B", "C", "D", "E", "F", "G", "H", "I", "J", "K", "L", "M",
              "N", "O", "P", "Q", "R", "S", "T", "U", "V", "W", "X", "Y", "Z",
              "a", "b", "c", "d", "e", "f", "g", "h", "i", "j", "k", "l", "m",
              "n", "o", "p", "q", "r", "s", "t", "u", "v", "w", "x", "y", "z",
              "0", "1", "2", "3", "4", "5", "6", "7", "8", "9", "+", "/">>

\* a well-formed text: standard alphabet, length a multiple of 4, '=' only as
\* the last one or two characters
IsPaddedBase64(t) ==
    /\ Len(t) % 4 = 0
    /\ \A i \in 1..Len(t) :
          \/ IndexOf(B64Chars, t[i]) > 0
          \/ /\ t[i] = "="
             /\ i >= Len(t) - 1
             /\ i = Len(t) \/ t[Len(t)] = "="

\* Buffer.prototype.toString('base64'): three bytes give four characters;
\* a last group of one or two bytes is padded with '='
RECURSIVE BufferToBase64From(_, _)
BufferToBase64From(bytes, i) ==
    LET n == Len(bytes) - i + 1
        a == bytes[i]
        b == bytes[i + 1]
        c == bytes[i + 2]
    IN  IF n <= 0 THEN << >>
        ELSE IF n = 1 THEN
            <<B64Chars[(a \div 4) + 1], B64Chars[((a % 4) * 16) + 1], "=", "=">>
        ELSE IF n = 2 THEN
            <<B64Chars[(a \div 4) + 1], B64Chars[((a % 4) * 16 + (b \div 16)) + 1],
              B64Chars[((b % 16) * 4) + 1], "=">>
        ELSE
            <<B64Chars[(a \div 4) + 1], B64Chars[((a % 4) * 16 + (b \div 16)) + 1],
              B64Chars[((b % 16) * 4 + (c \div 64)) + 1], B64Chars[(c % 64) + 1]>>
            \o BufferToBase64From(bytes, i + 3)
BufferToBase64(bytes) == BufferToBase64From(bytes, 1)

\* the value Node gives a base64 character: the standard alphabet, and the
\* URL-safe '-' and '_'; -1 for any other character
unbase64(c) ==
    IF IndexOf(B64Chars, c) > 0 THEN IndexOf(B64Chars, c) - 1
    ELSE IF c = "-" THEN 62
    ELSE IF c = "_" THEN 63
    ELSE -1

\* Buffer.from(s, 'base64'): characters outside the alphabet are skipped,
\* decoding stops at the first '=', a trailing partial group gives the bytes
\* it completes; it never throws
RECURSIVE LegalSextets(_)
LegalSextets(s) ==
    IF s = << >> \/ Head(s) = "=" THEN << >>
    ELSE IF unbase64(Head(s)) >= 0 THEN <<unbase64(Head(s))>> \o LegalSextets(Tail(s))
    ELSE LegalSextets(Tail(s))
RECURSIVE SextetsToBytes(_)
SextetsToBytes(x) ==
    IF Len(x) < 2 THEN << >>
    ELSE IF Len(x) = 2 THEN <<(x[1] * 4) + (x[2] \div 16)>>
    ELSE IF Len(x) = 3 THEN
        <<(x[1] * 4) + (x[2] \div 16), ((x[2] % 16) * 16) + (x[3] \div 4)>>
    ELSE
        <<(x[1] * 4) + (x[2] \div 16), ((x[2] % 16) * 16) + (x[3] \div 4),
          ((x[3] % 4) * 64) + x[4]>>
        \o SextetsToBytes(SubSeq(x, 5, Len(x)))
BufferFromBase64(s) == SextetsToBytes(LegalSextets(s))

\* String.fromCharCode(...new Uint8Array(arrayBuffer)): one character per
\* byte, with the byte as its code
StringFromCharCode(bytes) == [i \in 1..Len(bytes) |-> bytes[i] % 65536]

\* bits of a number, most significant first
RECURSIVE ToBits(_, _)
ToBits(n, width) ==
    IF width = 0 THEN << >> ELSE Append(ToBits(n \div 2, width - 1), n % 2)
RECURSIVE FromBits(_)
FromBits(bits) ==
    IF bits = << >> THEN 0
    ELSE 2 * FromBits(SubSeq(bits, 1, Len(bits) - 1)) + bits[Len(bits)]
RECURSIVE PadTo(_, _, _)
PadTo(s, multiple, fill) ==
    IF Len(s) % multiple = 0 THEN s ELSE PadTo(Append(s, fill), multiple, fill)

\* btoa(binary): throws InvalidCharacterError on a character above U+00FF,
\* else the RFC 4648 encoding of the characters' codes: the bit string cut
\* in groups of 6, the last group filled with 0 bits, then '=' padding
btoaBody(binary) ==
    LET bits == PadTo(Flatten([i \in 1..Len(binary) |-> ToBits(binary[i], 8)]), 6, 0)
        text == [k \in 1..(Len(bits) \div 6) |->
                    B64Chars[FromBits(SubSeq(bits, 6 * k - 5, 6 * k)) + 1]]
    IN  PadTo(text, 4, "=")
btoaNoPadding(binary) ==
    [ok |-> TRUE, error |-> "",
     value |-> SelectSeq(btoaBody(binary), LAMBDA c : c # "=")]
btoa(binary) ==
    IF \E i \in 1..Len(binary) : binary[i] > 255
    THEN [ok |-> FALSE, error |-> "InvalidCharacterError", value |-> << >>]
    ELSE [ok |-> TRUE, error |-> "", value |-> btoaBody(binary)]

\* atob(data), the forgiving-base64 decode: ASCII white space is removed; of
\* a length that is a multiple of 4, one or two trailing '=' are removed;
\* then a length of 1 modulo 4 or a character outside the standard alphabet
\* throws InvalidCharacterError; the bits left over at the end are dropped
atobStripped(data) ==
    LET s == SelectSeq(data, LAMBDA ch : ch \notin WhiteSpace)
        n == Len(s)
    IN  IF n > 0 /\ n % 4 = 0 /\ s[n] = "="
        THEN IF s[n - 1] = "=" THEN SubSeq(s, 1, n - 2) ELSE SubSeq(s, 1, n - 1)
        ELSE s
atob(data) ==
    LET s    == atobStripped(data)
        bits == Flatten([i \in 1..Len(s) |-> ToBits(IndexOf(B64Chars, s[i]) - 1, 6)])
    IN  IF Len(s) % 4 = 1 \/ \E i \in 1..Len(s) : IndexOf(B64Chars, s[i]) = 0
        THEN [ok |-> FALSE, error |-> "InvalidCharacterError", value |-> << >>]
        ELSE [ok |-> TRUE, error |-> "",
              value |-> [k \in 1..(Len(bits) \div 8) |->
                            FromBits(SubSeq(bits, 8 * k - 7, 8 * k))]]

\* arrayBufferToBase64: btoa(String.fromCharCode(...bytes))
arrayBufferToBase64(arrayBuffer) == btoa(StringFromCharCode(arrayBuffer))

\* base64ToArrayBuffer: atob, then charCodeAt of every character stored in
\* a Uint8Array of the binary string's length
base64ToArrayBufferDropsLast(base64) ==
    LET binary == atob(base64)
    IN  IF ~binary.ok THEN binary
        ELSE [binary EXCEPT !.value = SubSeq(binary.value, 1, Len(binary.value) - 1)]
base64ToArrayBuffer(base64) ==
    LET binary == atob(base64)
    IN  IF ~binary.ok THEN binary
        ELSE [binary EXCEPT !.value = [i \in 1..Len(binary.value) |->
                                          binary.value[i] % 256]]

(***************************************************************************)
(* Values: sources, results, the file system.                              *)
(***************************************************************************)
\* a string argument, with the parts the URL parser finds in it
UrlString  == [text |-> "https://example.com/image.jpg", scheme |-> "https",
               authority |-> "example.com"]
PathString == [text |-> "out.bin", scheme |-> "", authority |-> ""]
LostString == [text |-> "missing/out.bin", scheme |-> "", authority |-> ""]
InString   == [text |-> "in.bin", scheme |-> "", authority |-> ""]
NoString   == [text |-> "", scheme |-> "", authority |-> ""]
\* an absolute Windows path: the URL parser reads the drive letter as a
\* scheme, and finds no authority
DriveString == [text |-> "C:/data/in.bin", scheme |-> "c", authority |-> ""]
StringSamples == {UrlString, PathString, LostString, InString, DriveString}

\* a source value: its runtime type, and what reading it gives.  fate is
\* "error" for a handle whose arrayBuffer() rejects and for a stream whose
\* read() rejects once its chunks are pulled
Source(kind, str, bytes, chunkList, fate) ==
    [kind |-> kind, str |-> str, bytes |-> bytes, chunks |-> chunkList, fate |-> fate,
     name |-> "", mediaType |-> ""]
\* new File([bytes], name, {type}) and new Blob([bytes], {type})
Handle(kind, bytes, name, mediaType) ==
    [kind |-> kind, str |-> NoString, bytes |-> bytes, chunks |-> << >>, fate |-> "ok",
     name |-> name, mediaType |-> mediaType]
NoSource == Source("none", NoString, << >>, << >>, "ok")

\* the chunk lists of at most k chunks holding at most n bytes in all
RECURSIVE ChunkListsOf(_, _)
ChunkListsOf(n, k) ==
    IF k = 0 THEN {<< >>}
    ELSE {<< >>} \cup UNION {{<<c>> \o rest : rest \in ChunkListsOf(n - Len(c), k - 1)} :
                                c \in SeqsUpTo(StreamBytes, n)}
ChunkLists == ChunkListsOf(MaxLen, MaxChunks)

StringSources == {Source("string", s, << >>, << >>, "ok") : s \in StringSamples}
HandleSources == {Source(k, NoString, b, << >>, f) :
                     k \in {"File", "Blob"}, b \in ByteSeqs, f \in {"ok", "error"}}
\* the handles of the tests: the ASCII bytes of "Test content" and of
\* "Hex content", under several names and media types
TestContent == <<84, 101, 115, 116, 32, 99, 111, 110, 116, 101, 110, 116>>
HexContent  == <<72, 101, 120, 32, 99, 111, 110, 116, 101, 110, 116>>
HandleNames == {"test-file.txt", "a.bin"}
MediaTypes  == {"text/plain", "application/octet-stream", ""}
NamedHandles ==
    {Handle("File", b, n, t) : b \in {TestContent, HexContent}, n \in HandleNames,
                               t \in MediaTypes}
    \cup {Handle("Blob", b, "", t) : b \in {TestContent, HexContent}, t \in MediaTypes}
\* a file of one byte, for every value a byte takes
MaxByte == 255
SingleByteFiles == {Handle("File", <<b>>, "a.bin", "") : b \in 0..MaxByte}
BufferSources == {Source("Buffer", NoString, b, << >>, "ok") : b \in ByteSeqs}
StreamSources == {Source("ReadableStream", NoString, << >>, cs, f) :
                     cs \in ChunkLists, f \in {"ok", "error"}}
\* a value of none of the accepted types, such as the number 123
OtherSources  == {Source("number", NoString, << >>, << >>, "ok")}

\* what the transport answers to a GET: a network error, or a response
\* with a status and a body
NetError  == [failed |-> TRUE, status |-> 0, body |-> << >>]
Responses == {[failed |-> FALSE, status |-> 200, body |-> b] : b \in ByteSeqs}
                \cup {[failed |-> FALSE, status |-> 404, body |-> <<10>>]}
NoNet     == [failed |-> FALSE, status |-> 0, body |-> << >>]

\* the fileName argument: undefined, the empty string, or a name
NoName    == [given |-> FALSE, name |-> ""]
FileNames == {NoName, [given |-> TRUE, name |-> ""], [given |-> TRUE, name |-> "hello.txt"]}

\* a settled value
Value(type, text, bytes, name, error) ==
    [type |-> type, text |-> text, bytes |-> bytes, name |-> name, error |-> error]
NoValue       == Value("none", << >>, << >>, "", "")
NullValue     == Value("null", << >>, << >>, "", "")
VoidValue     == Value("void", << >>, << >>, "", "")
TextValue(t)  == Value("text", t, << >>, "", "")
BufferValue(b)  == Value("Buffer", << >>, b, "", "")
FileValue(b, n) == Value("File", << >>, b, n, "")
ErrorValue(e)   == Value("error", << >>, << >>, "", e)

\* how a try block ends: with a value, or by throwing; steps lists what it
\* did, in order
Returns(v, steps) == [thrown |-> "", val |-> v, steps |-> steps]
Throws(e, steps)  == [thrown |-> e, val |-> NoValue, steps |-> steps]

\* a promise: thrown keeps the error raised inside the call, if any, and
\* steps what the call did so far
Pending(steps) == [kind |-> "pending", val |-> NoValue, thrown |-> "", steps |-> steps]

\* catch (error) { console.error(...); return null; }
CatchReturnNullRethrows(c) ==
    IF c.thrown # ""
    THEN [kind |-> "rejected", val |-> ErrorValue(c.thrown), thrown |-> c.thrown,
          steps |-> c.steps]
    ELSE [kind |-> "resolved", val |-> c.val, thrown |-> "", steps |-> c.steps]
CatchReturnNull(c) ==
    [kind |-> "resolved", val |-> IF c.thrown # "" THEN NullValue ELSE c.val,
     thrown |-> c.thrown, steps |-> c.steps]

\* catch (error) { console.error(...); throw error; }
CatchRethrowSwallows(c) ==
    [kind |-> "resolved", val |-> IF c.thrown # "" THEN NullValue ELSE c.val,
     thrown |-> c.thrown, steps |-> c.steps]
CatchRethrow(c) ==
    IF c.thrown # ""
    THEN [kind |-> "rejected", val |-> ErrorValue(c.thrown), thrown |-> c.thrown,
          steps |-> c.steps]
    ELSE [kind |-> "resolved", val |-> c.val, thrown |-> "", steps |-> c.steps]

\* the files of the file system: "out.bin" lies in an existing directory,
\* "missing/out.bin" in a directory that does not exist
Paths == {PathString.text, LostString.text, InString.text}
DirectoryExists(path) == path \in {PathString.text, InString.text}
NoFile == [exists |-> FALSE, bytes |-> << >>]
\* when the program starts "in.bin" is there, with two bytes, and no other
InitialFiles ==
    [p \in Paths |-> IF p = InString.text THEN [exists |-> TRUE, bytes |-> <<171, 10>>]
                     ELSE NoFile]

(***************************************************************************)
(* The state.                                                              *)
(***************************************************************************)
VARIABLES
    build,      \* the FileConverter class the program holds: "dual" or "path"
    window,     \* TRUE when a global named window is defined
    document,   \* TRUE when a global named document is defined
    fs,         \* the file system: what each path holds
    pc,         \* "idle", "reading" (a stream conversion between reads),
                \* "writing" and "flushing" (a file write under way), "done"
    call,       \* the call in progress or just settled: its arguments
    result,     \* the promise the call returned
    stream,     \* the chunks the stream being read has still to emit
    chunks,     \* the chunks the stream conversion has pulled (its local array)
    seen,       \* the globals as they were when the call settled (history)
    currentLocale,  \* Localization.currentLocale (a static field)
    locCall,        \* the last call made on Localization: its name and argument
    locResult,      \* how that call ended: the value returned or the Error thrown
    locUsed,        \* what that call handed to the host: locale, style, options
    accepted,       \* the argument of the last setLocale that returned (history)
    prior,          \* the environment the call before ran in, kept from its return
                    \* through the reverse call that follows it (history)
    tasks           \* the stream conversions in flight together, each with its
                    \* own stream, reader and local variables

\* the state of the Localization class, which no FileConverter call touches
loc == <<currentLocale, locCall, locResult, locUsed, accepted>>

vars == <<build, window, document, fs, pc, call, result, stream, chunks, seen,
          currentLocale, locCall, locResult, locUsed, accepted, prior, tasks>>

Globals == [window |-> window, document |-> document]
\* no call came before
NoPrior == "none"

Call(cls, op, src, net, text, fileName, outputPath, origin) ==
    [cls |-> cls, op |-> op, src |-> src, net |-> net, text |-> text,
     fileName |-> fileName, outputPath |-> outputPath, origin |-> origin]
NoCall == Call("none", "none", NoSource, NoNet, << >>, NoName, "", << >>)

(***************************************************************************)
(* The dual-environment class (lines 190-583).                             *)
(***************************************************************************)
\* isBrowser(): both globals are defined
isBrowserIgnoresDocument == window
isBrowserCached == IF prior = NoPrior THEN window /\ document ELSE prior = "browser"
isBrowser == window /\ document

\* isURL(str): new URL(str) does not throw, which takes a scheme and, for
\* the schemes that need one, a host
SchemesWithHost == {"http", "https", "ftp", "ws", "wss"}
isURL(str) ==
    /\ str.scheme # ""
    /\ str.scheme \in SchemesWithHost => str.authority # ""

Decoded(bytes) == [ok |-> TRUE, error |-> "", value |-> bytes]

\* browser ? this.arrayBufferToBase64(b) : Buffer.from(b).toString('base64')
EncodeBase64(browser, bytes) ==
    IF browser THEN arrayBufferToBase64(bytes) ELSE Decoded(BufferToBase64(bytes))
\* browser ? this.arrayBufferToHex(b) : Buffer.from(b).toString('hex')
EncodeHex(browser, bytes) ==
    IF browser THEN Decoded(arrayBufferToHex(bytes)) ELSE Decoded(BufferToHex(bytes))
Encode(op, browser, bytes) ==
    IF op = "fileToBase64" THEN EncodeBase64(browser, bytes) ELSE EncodeHex(browser, bytes)

\* the end of a helper's try block that encodes the bytes it acquired
EncodeAndReturn(op, browser, bytes, steps) ==
    LET text == Encode(op, browser, bytes)
    IN  IF text.ok THEN Returns(TextValue(text.value), steps \o <<"isBrowser", "encode">>)
        ELSE Throws(text.error, steps \o <<"isBrowser", "encode">>)

\* convertFromFile / convertFromFileToHex
convertFromFileReadsAllButLast(op, file, browser) ==
    CatchReturnNull(
        IF file.fate = "error" THEN Throws("NotReadableError", <<"arrayBuffer">>)
        ELSE EncodeAndReturn(op, browser, SubSeq(file.bytes, 1, Len(file.bytes) - 1),
                             <<"arrayBuffer">>))
convertFromFile(op, file, browser) ==
    CatchReturnNull(
        IF file.fate = "error" THEN Throws("NotReadableError", <<"arrayBuffer">>)
        ELSE EncodeAndReturn(op, browser, file.bytes, <<"arrayBuffer">>))

\* convertFromURL / convertFromURLToHex: fetch rejects on a network error
\* only; a response of any status has its body encoded
convertFromURLRetries(op, net, browser) ==
    CatchReturnNull(
        IF net.failed THEN Throws("NetworkError", <<"GET", "GET">>)
        ELSE EncodeAndReturn(op, browser, net.body, <<"GET">>))
convertFromURL(op, net, browser) ==
    CatchReturnNull(
        IF net.failed THEN Throws("NetworkError", <<"GET">>)
        ELSE EncodeAndReturn(op, browser, net.body, <<"GET">>))

\* convertFromBuffer / convertFromBufferToHex: buffer.toString(...)
convertFromBuffer(op, buffer) ==
    CatchReturnNull(
        Returns(TextValue(IF op = "fileToBase64" THEN BufferToBase64(buffer.bytes)
                          ELSE BufferToHex(buffer.bytes)), <<"encode">>))

\* concatenated.set(chunk, offset)
Uint8ArraySet(arr, chunk, offset) ==
    [i \in 1..Len(arr) |->
        IF i > offset /\ i <= offset + Len(chunk) THEN chunk[i - offset] ELSE arr[i]]

\* the copy loop of convertFromStream: every chunk at the running offset
RECURSIVE CopyChunksNoAdvance(_, _, _, _)
CopyChunksNoAdvance(concatenated, pulled, k, offset) ==
    IF k > Len(pulled) THEN concatenated
    ELSE CopyChunksNoAdvance(Uint8ArraySet(concatenated, pulled[k], offset), pulled,
                             k + 1, offset)
RECURSIVE CopyChunks(_, _, _, _)
CopyChunks(concatenated, pulled, k, offset) ==
    IF k > Len(pulled) THEN concatenated
    ELSE CopyChunks(Uint8ArraySet(concatenated, pulled[k], offset), pulled, k + 1,
                    offset + Len(pulled[k]))
RECURSIVE CopyChunksBackwards(_, _, _, _)
CopyChunksBackwards(concatenated, pulled, k, offset) ==
    IF k < 1 THEN concatenated
    ELSE CopyChunksBackwards(Uint8ArraySet(concatenated, pulled[k], offset), pulled,
                             k - 1, offset + Len(pulled[k]))
ConcatenateReversed(pulled) ==
    CopyChunksBackwards([i \in 1..SumLen(pulled) |-> 0], pulled, Len(pulled), 0)
\* new Uint8Array(concatenatedLength), then the copy loop
Concatenate(pulled) ==
    CopyChunks([i \in 1..SumLen(pulled) |-> 0], pulled, 1, 0)
\* offset when the copy loop reaches chunk k, having started chunk from at
\* offset: offset += chunk.length for every chunk before k
RECURSIVE OffsetAt(_, _, _, _)
OffsetAt(pulled, k, from, offset) ==
    IF from >= k THEN offset
    ELSE OffsetAt(pulled, k, from + 1, offset + Len(pulled[from]))

\* convertFromStream / convertFromStreamToHex once read() has settled with
\* the stream drained: done gives the encoding of the concatenated chunks,
\* a rejected read is caught
convertFromStreamEndKeepsPartial(op, fate, pulled, browser, steps) ==
    CatchReturnNull(EncodeAndReturn(op, browser, Concatenate(pulled),
                                    steps \o <<"read", "concat">>))
convertFromStreamEnd(op, fate, pulled, browser, steps) ==
    CatchReturnNull(
        IF fate = "error" THEN Throws("StreamError", Append(steps, "read"))
        ELSE EncodeAndReturn(op, browser, Concatenate(pulled),
                             steps \o <<"read", "concat">>))

\* the try block of base64ToFile / hexToFile: decode, then, in a browser,
\* check the name and build the File; else return a Buffer
ReverseDecode(op, browser, text) ==
    IF op = "base64ToFile"
    THEN IF browser THEN base64ToArrayBuffer(text) ELSE Decoded(BufferFromBase64(text))
    ELSE IF browser THEN Decoded(hexToArrayBuffer(text)) ELSE Decoded(BufferFromHex(text))
MissingName == "fileName is required in browser environment"
ToFileTry(op, browser, text, fileName) ==
    LET buffer == ReverseDecode(op, browser, text)
    IN  IF ~buffer.ok THEN Throws(buffer.error, <<"isBrowser", "decode">>)
        ELSE IF browser
        THEN IF ~fileName.given \/ fileName.name = ""
             THEN Throws(MissingName, <<"isBrowser", "decode", "isBrowser", "checkName">>)
             ELSE Returns(FileValue(buffer.value, fileName.name),
                          <<"isBrowser", "decode", "isBrowser", "checkName", "construct">>)
        ELSE Returns(BufferValue(buffer.value),
                     <<"isBrowser", "decode", "isBrowser", "construct">>)

\* fileToBase64 / fileToHex for every source but a stream: the promise the
\* call returns.  The try block returns the helper's promise without
\* awaiting it, so the call settles as the helper does
InvalidSource == "Invalid source type"
fileTo(op, src, net, browser) ==
    IF src.kind = "string"
    THEN IF isURL(src.str) THEN convertFromURL(op, net, browser)
         ELSE CatchReturnNull(Throws(InvalidSource, << >>))
    ELSE IF src.kind \in {"File", "Blob"} THEN convertFromFile(op, src, browser)
    ELSE IF src.kind = "Buffer" THEN convertFromBuffer(op, src)
    ELSE CatchReturnNull(Throws(InvalidSource, << >>))

(***************************************************************************)
(* The path-writing class (lines 8-184): Node only.                        *)
(***************************************************************************)
\* convertFromFile(filePath) and fileToHex(filePath): fs.promises.readFile
PathReadFile(op, path) ==
    CatchReturnNull(
        IF path \in Paths /\ fs[path].exists
        THEN Returns(TextValue(IF op = "fileToBase64" THEN BufferToBase64(fs[path].bytes)
                               ELSE BufferToHex(fs[path].bytes)),
                     <<"readFile", "encode">>)
        ELSE Throws("ENOENT", <<"readFile">>))

\* convertFromURL(url): axios.get rejects on a network error and on a
\* status outside 2xx
PathConvertFromURL(net) ==
    CatchReturnNull(
        IF net.failed \/ net.status < 200 \/ net.status > 299
        THEN Throws("AxiosError", <<"GET">>)
        ELSE Returns(TextValue(BufferToBase64(net.body)), <<"GET", "encode">>))

\* fileToBase64(source) for every source but a stream
PathFileTo(src, net) ==
    IF src.kind = "string"
    THEN IF isURL(src.str) THEN PathConvertFromURL(net)
         ELSE PathReadFile("fileToBase64", src.str.text)
    ELSE IF src.kind = "Buffer" THEN convertFromBuffer("fileToBase64", src)
    ELSE CatchReturnNull(Throws(InvalidSource, << >>))

\* convertFromStream of the path-writing class once the stream is drained:
\* Buffer.from(concatenated).toString('base64')
PathConvertFromStreamEnd(fate, pulled, steps) ==
    CatchReturnNull(
        IF fate = "error" THEN Throws("StreamError", Append(steps, "read"))
        ELSE Returns(TextValue(BufferToBase64(Concatenate(pulled))),
                     steps \o <<"read", "concat", "encode">>))

\* the try block of base64ToFile / hexToFile(text, outputPath): decode with
\* Buffer.from, then await fs.promises.writeFile
PathDecode(op, text) ==
    IF op = "base64ToFile" THEN BufferFromBase64(text) ELSE BufferFromHex(text)
PathToFileTry(op, text, outputPath) ==
    IF DirectoryExists(outputPath)
    THEN Returns(VoidValue, <<"decode", "writeFile">>)
    ELSE Throws("ENOENT", <<"decode", "writeFile">>)
writeFile(outputPath, buffer) ==
    IF DirectoryExists(outputPath)
    THEN [fs EXCEPT ![outputPath] = [exists |-> TRUE, bytes |-> buffer]]
    ELSE fs
\* writeFile opens its destination for writing, which empties it
openFile(outputPath) ==
    IF DirectoryExists(outputPath)
    THEN [fs EXCEPT ![outputPath] = [exists |-> TRUE, bytes |-> << >>]]
    ELSE fs
\* the promise of base64ToFile / hexToFile(text, outputPath) while the write
\* it awaits is under way
PathToFileStartNoAwait(op, text, outputPath) ==
    CatchRethrow(Returns(VoidValue, <<"decode", "writeFile">>))
PathToFileStart(op, text, outputPath) ==
    Pending(<<"decode", "writeFile">>)

(***************************************************************************)
(* The Localization class (Localization.ts).                               *)
(***************************************************************************)
\* a locale code as the caller writes it, with what the host's Intl makes
\* of it: whether it is a structurally valid language tag, its canonical
\* form, and whether the host has locale data for it or for a prefix of it;
\* parts is what text.split('-') gives, and region the region subtag of the
\* canonical form ("" when it has none)
LocaleCode(text, wellFormed, canonical, available, parts, region) ==
    [text |-> text, wellFormed |-> wellFormed, canonical |-> canonical,
     available |-> available, parts |-> parts, region |-> region]

DefaultLocale == "en-US"

\* codes the host supports: canonical ones, ones whose letter case it would
\* change ('FR', 'EN-us', 'zh-hant-tw'), ones without a region ('FR', 'DE',
\* 'en') and one with a script before its region ('zh-hant-tw')
SupportedCodes ==
    { LocaleCode("en-US", TRUE, "en-US", TRUE, <<"en", "US">>, "US"),
      LocaleCode("FR", TRUE, "fr", TRUE, <<"FR">>, ""),
      LocaleCode("fr-FR", TRUE, "fr-FR", TRUE, <<"fr", "FR">>, "FR"),
      LocaleCode("es-ES", TRUE, "es-ES", TRUE, <<"es", "ES">>, "ES"),
      LocaleCode("ja-JP", TRUE, "ja-JP", TRUE, <<"ja", "JP">>, "JP"),
      LocaleCode("de-DE", TRUE, "de-DE", TRUE, <<"de", "DE">>, "DE"),
      LocaleCode("DE", TRUE, "de", TRUE, <<"DE">>, ""),
      LocaleCode("en", TRUE, "en", TRUE, <<"en">>, ""),
      LocaleCode("EN-us", TRUE, "en-US", TRUE, <<"EN", "us">>, "US"),
      LocaleCode("en-GB", TRUE, "en-GB", TRUE, <<"en", "GB">>, "GB"),
      LocaleCode("zh-hant-tw", TRUE, "zh-Hant-TW", TRUE, <<"zh", "hant", "tw">>, "TW"),
      LocaleCode("pt-BR", TRUE, "pt-BR", TRUE, <<"pt", "BR">>, "BR") }

\* valid tags the host has no data for
UnsupportedCodes ==
    { LocaleCode("invalid-locale", TRUE, "invalid-locale", FALSE,
                 <<"invalid", "locale">>, ""),
      LocaleCode("xx-XX", TRUE, "xx-XX", FALSE, <<"xx", "XX">>, "XX"),
      LocaleCode("xx", TRUE, "xx", FALSE, <<"xx">>, ""),
      LocaleCode("zz-ZZ", TRUE, "zz-ZZ", FALSE, <<"zz", "ZZ">>, "ZZ"),
      LocaleCode("QQ", TRUE, "qq", FALSE, <<"QQ">>, "") }

\* strings that are no language tag at all
MalformedCodes ==
    { LocaleCode("", FALSE, "", FALSE, <<"">>, ""),
      LocaleCode("en_US", FALSE, "", FALSE, <<"en_US">>, ""),
      LocaleCode("e", FALSE, "", FALSE, <<"e">>, ""),
      LocaleCode("en-", FALSE, "", FALSE, <<"en", "">>, ""),
      LocaleCode("fr FR", FALSE, "", FALSE, <<"fr FR">>, "") }

LocaleCodes == SupportedCodes \cup UnsupportedCodes \cup MalformedCodes

\* Intl.NumberFormat.supportedLocalesOf([localeCode]): a RangeError for a
\* string that is no language tag; else the canonical tag when the host has
\* data for it, and nothing when it has none
IncorrectLocale == "Incorrect locale information provided"
supportedLocalesOf(localeCode) ==
    IF ~localeCode.wellFormed THEN [thrown |-> IncorrectLocale, value |-> << >>]
    ELSE [thrown |-> "",
          value |-> IF localeCode.available THEN <<localeCode.canonical>> ELSE << >>]

\* `Locale '${localeCode}' is not supported.`
NotSupported(localeCode) == "Locale '" \o localeCode.text \o "' is not supported."

\* Localization.currentLocale = localeCode
StoredLocaleCanonical(localeCode, supported) == supported[1]
StoredLocale(localeCode, supported) == localeCode.text

\* the try block of setLocale: what it throws, and what it assigns
setLocaleTryAssignsFirst(localeCode) ==
    LET supported == supportedLocalesOf(localeCode)
    IN  IF supported.thrown # ""
        THEN [thrown |-> supported.thrown, assigned |-> <<localeCode.text>>]
        ELSE IF Len(supported.value) > 0
        THEN [thrown |-> "", assigned |-> <<localeCode.text>>]
        ELSE [thrown |-> NotSupported(localeCode), assigned |-> <<localeCode.text>>]
setLocaleTry(localeCode) ==
    LET supported == supportedLocalesOf(localeCode)
    IN  IF supported.thrown # ""
        THEN [thrown |-> supported.thrown, assigned |-> << >>]
        ELSE IF Len(supported.value) > 0
        THEN [thrown |-> "", assigned |-> <<StoredLocale(localeCode, supported.value)>>]
        ELSE [thrown |-> NotSupported(localeCode), assigned |-> << >>]

\* catch (e) { throw new Error(`An error occurred: ${e.message}`); }
setLocaleCatchKeepsMessage(thrown) == thrown
setLocaleCatch(thrown) == "An error occurred: " \o thrown

\* how a Localization call ends
LocReturned(v) == [kind |-> "returned", value |-> v]
LocThrown(m)   == [kind |-> "thrown", value |-> m]
NoLocResult    == [kind |-> "none", value |-> ""]

\* a call, with the call made before it: its name, argument and outcome
NoPrev == [op |-> "none", arg |-> "", kind |-> "none"]
LocCall(op, arg, prev) == [op |-> op, arg |-> arg, prev |-> prev]
NoLocCall == LocCall("none", "", NoPrev)
Prev == [op |-> locCall.op, arg |-> locCall.arg, kind |-> locResult.kind]

\* what a call hands to the host: the locale, the style of formatting, the
\* option that goes with it (a currency code, a date style, a phone region)
\* and how the host answered
Use(locale, style, option, outcome) ==
    [locale |-> locale, style |-> style, option |-> option, outcome |-> outcome]
NoUse == Use("", "none", "", "none")

\* the locale code a string stands for
CodeOf(text) == CHOOSE c \in LocaleCodes : c.text = text

\* const locale = Localization.currentLocale
ReadLocaleDefault == DefaultLocale
ReadLocale == currentLocale

\* the text the host's Intl produces: it is the host's own, and stands here
\* as the request that produced it (style, canonical locale, option, value)
HostText(style, locale, option, value) ==
    style \o "[" \o CodeOf(locale).canonical \o "|" \o option \o "]" \o value

\* the arguments given to the formatting calls: numbers as number.toString()
\* writes them, currency codes (NoCurrency: the argument is left out; "EURO"
\* is no currency code), dates (a Date or a string; "garbage" gives an
\* Invalid Date) and date options ("bogus" is no dateStyle)
Numbers == {"1234.56", "0"}
NoCurrency == ""
CurrencyCodes == {NoCurrency, "USD", "EUR", "EURO"}
Dates == {"2025-02-19", "garbage"}
NoOptions == ""
DateOptions == {NoOptions, "full", "bogus"}

\* formatNumber(number): new Intl.NumberFormat(locale, {style: 'decimal'})
\* .format(number), which does not throw for a locale setLocale accepted
formatNumber(locale, number) ==
    [value |-> HostText("decimal", locale, "", number),
     used |-> Use(locale, "decimal", "", "formatted")]

\* formatCurrency(number, currencyCode = 'USD'): the constructor throws a
\* RangeError for a code that is not three letters, and the catch returns
\* number.toString()
WellFormedCurrency(currencyCode) == currencyCode \in {"USD", "EUR"}
formatCurrency(locale, number, currencyCode) ==
    LET currency == IF currencyCode = NoCurrency THEN "USD" ELSE currencyCode
    IN  IF WellFormedCurrency(currency)
        THEN [value |-> HostText("currency", locale, currency, number),
              used |-> Use(locale, "currency", currency, "formatted")]
        ELSE [value |-> number,
              used |-> Use(locale, "currency", currency, "RangeError")]

\* formatDate(date, options): new Intl.DateTimeFormat(locale, options ||
\* {dateStyle: 'medium'}).format(dateObj); the constructor throws for an
\* option it does not know and format throws for an Invalid Date, and the
\* catch returns dateObj.toLocaleDateString(), which is the host's default
\* formatting
toLocaleDateString(date) ==
    IF date = "garbage" THEN "Invalid Date" ELSE "toLocaleDateString[]" \o date
formatDate(locale, date, options) ==
    LET dateStyle == IF options = NoOptions THEN "medium" ELSE options
    IN  IF dateStyle \in {"medium", "full"} /\ date # "garbage"
        THEN [value |-> HostText("date", locale, dateStyle, date),
              used |-> Use(locale, "date", dateStyle, "formatted")]
        ELSE [value |-> toLocaleDateString(date),
              used |-> Use(locale, "date", dateStyle, "RangeError")]

\* String.prototype.toUpperCase on the subtags of the codes above
toUpperCase(s) ==
    CASE s = "us" -> "US"
      [] s = "tw" -> "TW"
      [] s = "hant" -> "HANT"
      [] s = "locale" -> "LOCALE"
      [] OTHER -> s

\* the phone numbers the library finds valid, by region, with their national
\* format; every other pair of number and region it finds invalid or throws on
PhoneBook ==
    { <<"2125551212", "US", "(212) 555-1212">>,
      <<"1800FLOWERS", "US", "(800) 356-9377">>,
      <<"02071838750", "GB", "020 7183 8750">>,
      <<"03012345678", "DE", "030 12345678">>,
      <<"01 23 45 67 89", "FR", "01 23 45 67 89">>,
      <<"0223456789", "TW", "02 2345 6789">> }
PhoneNumbers == {e[1] : e \in PhoneBook} \cup {"123", ""}
IsValidFor(phoneNumber, region) == \E e \in PhoneBook : e[1] = phoneNumber /\ e[2] = region
NationalFormat(phoneNumber, region) ==
    (CHOOSE e \in PhoneBook : e[1] = phoneNumber /\ e[2] = region)[3]

\* new PhoneNumberHandler(phoneNumber, defaultRegion), getPhoneNumberInfo()
\* and format(NATIONAL): the ways the library may answer
PhoneNumberHandler(phoneNumber, defaultRegion) ==
    IF IsValidFor(phoneNumber, defaultRegion) THEN {"valid"}
    ELSE {"invalid", "threw"}

\* the try block of formatPhoneNumber, given the library's answer: the
\* region is the second part of the locale split at '-', in upper case, and
\* reading it throws a TypeError when the locale has one part only
formatPhoneNumberTry(locale, phoneNumber, answer) ==
    LET parts == CodeOf(locale).parts
    IN  IF Len(parts) < 2
        THEN [thrown |-> TRUE, value |-> "", used |-> Use(locale, "phone", "", "TypeError")]
        ELSE LET defaultRegion == toUpperCase(parts[2])
             IN  IF answer = "valid"
                 THEN [thrown |-> FALSE,
                       value |-> NationalFormat(phoneNumber, defaultRegion),
                       used |-> Use(locale, "phone", defaultRegion, answer)]
                 ELSE IF answer = "invalid"
                 THEN [thrown |-> FALSE, value |-> phoneNumber,
                       used |-> Use(locale, "phone", defaultRegion, answer)]
                 ELSE [thrown |-> TRUE, value |-> "",
                       used |-> Use(locale, "phone", defaultRegion, answer)]

\* catch (error) { console.error(...); return phoneNumber; }
formatPhoneNumberCatchRethrows(try, phoneNumber) ==
    IF try.thrown THEN LocThrown("Error formatting phone number") ELSE LocReturned(try.value)
formatPhoneNumberCatch(try, phoneNumber) ==
    IF try.thrown THEN LocReturned(phoneNumber) ELSE LocReturned(try.value)

\* the region formatPhoneNumber would hand to the library for a locale
RegionArgument(locale) ==
    IF Len(CodeOf(locale).parts) < 2 THEN "" ELSE toUpperCase(CodeOf(locale).parts[2])

(***************************************************************************)
(* Inputs.                                                                 *)
(***************************************************************************)
DualSources == StringSources \cup HandleSources \cup NamedHandles \cup SingleByteFiles
                   \cup BufferSources \cup StreamSources \cup OtherSources
PathSources == StringSources \cup BufferSources \cup StreamSources \cup OtherSources

\* a GET is answered only for a URL; other sources meet no transport
NetChoices(src) ==
    IF src.kind = "string" /\ isURL(src.str) THEN {NetError} \cup Responses ELSE {NoNet}

\* base64 texts given to the reverse conversion: well-formed ("", "Cg==",
\* "q/8="), unpadded ("Cg"), wrongly padded ("Cg="), a lone character, with
\* characters outside the alphabet, with white space, URL-safe, and with
\* data after the padding
Base64Samples ==
    { << >>,
      <<"C", "g", "=", "=">>,
      <<"q", "/", "8", "=">>,
      <<"C", "g">>,
      <<"C", "g", "=">>,
      <<"C">>,
      <<"!", "!", "!", "!">>,
      <<"C", "g", "!", "!">>,
      <<"C", " ", "g", "=", "=">>,
      <<"_", "w", "=", "=">>,
      <<"C", "g", "=", "=", "C", "g", "=", "=">> }

\* hex texts given to the reverse conversion: well-formed ("", "0a", "AB",
\* "0aff"), of odd length ("a", "abc"), and with characters that are no hex
\* digits ("zz", "1z", " f", "-1", "0x", "0azz")
HexSamples ==
    { << >>,
      <<"0", "a">>,
      <<"A", "B">>,
      <<"0", "a", "f", "f">>,
      <<"a">>,
      <<"a", "b", "c">>,
      <<"z", "z">>,
      <<"1", "z">>,
      <<" ", "f">>,
      <<"-", "1">>,
      <<"0", "x">>,
      <<"0", "a", "z", "z">> }

\* the texts the tests expect for the two handles
TestContentBase64 ==
    <<"V", "G", "V", "z", "d", "C", "B", "j", "b", "2", "5", "0", "Z", "W", "5", "0">>
HexContentHex ==
    <<"4", "8", "6", "5", "7", "8", "2", "0", "6", "3", "6", "f", "6", "e", "7", "4", "6", "5", "6", "e", "7", "4">>

\* the texts the path-writing class is given
PathBase64Samples == { <<"C", "g", "=", "=">>, <<"!", "!", "!", "!">>, TestContentBase64 }
PathHexSamples    == { <<"0", "a">>, <<"a", "b", "c">>, HexContentHex }

\* the bytes a forward call's source holds
Content(c) ==
    IF c.src.kind = "string" THEN c.net.body
    ELSE IF c.src.kind = "ReadableStream" THEN Flatten(c.src.chunks)
    ELSE c.src.bytes

(***************************************************************************)
(* Stream conversions in flight together: every call of convertFromStream  *)
(* or convertFromStreamToHex has its own stream, reader, chunks and done.  *)
(***************************************************************************)
Tasks == 1..MaxCalls

\* the streams given to them: one that closes at once, one that emits two
\* chunks and closes, one whose read fails after a chunk
TaskStreams ==
    {Source("ReadableStream", NoString, << >>, cs, "ok") :
        cs \in {<< >>, << <<10>>, <<255, 10>> >>}}
    \cup {Source("ReadableStream", NoString, << >>, << <<255>> >>, "error")}

\* a call: where it stands ("idle", "loop" at the head of the while loop,
\* "awaiting" the read it issued, "done"), its stream and what the stream
\* has left to emit, its local chunks and done, the reads it issued and
\* those that settled, and its promise
Task(at, op, src, left, pulled, issued, settled, done, promise) ==
    [pc |-> at, op |-> op, src |-> src, left |-> left, chunks |-> pulled,
     issued |-> issued, settled |-> settled, done |-> done, result |-> promise]
NoTask == Task("idle", "none", NoSource, << >>, << >>, 0, 0, FALSE, Pending(<< >>))
NoTasks == [t \in Tasks |-> NoTask]

\* let chunks: Uint8Array[] = []: the array of call t is its own
chunksOfShared(t) == 1
chunksOf(t) == t

\* while (!done)
LoopNever(done) == FALSE
LoopContinues(done) == ~done

\* what the call did so far: getReader(), then one read per chunk pulled
StepsSoFar(pulled) == <<"getReader">> \o [i \in 1..Len(pulled) |-> "read"]

\* the chunk lists a call may come to hold, and what the end of
\* convertFromStream / convertFromStreamToHex makes of each: the results are
\* worked out once, for all the calls
TaskChunks == UNION {{src.chunks[i] : i \in 1..Len(src.chunks)} : src \in TaskStreams}
PulledLists == SeqsUpTo(TaskChunks, MaxCalls + 2)
StreamEnds ==
    [op \in {"fileToBase64", "fileToHex"}, fate \in {"ok", "error"},
     pulled \in PulledLists, browser \in BOOLEAN |->
        convertFromStreamEnd(op, fate, pulled, browser, StepsSoFar(pulled))]

(***************************************************************************)
(* Actions.                                                                *)
(***************************************************************************)
\* the path-writing class runs in Node alone (it imports fs) and reads no
\* global: its runs keep the globals undefined
Init ==
    /\ build \in {"dual", "path"}
    /\ window \in (IF build = "dual" THEN BOOLEAN ELSE {FALSE})
    /\ document \in (IF build = "dual" THEN BOOLEAN ELSE {FALSE})
    /\ fs = InitialFiles
    /\ pc = "idle"
    /\ call = NoCall
    /\ result = Pending(<< >>)
    /\ stream = << >>
    /\ chunks = << >>
    /\ seen = Globals
    /\ currentLocale = DefaultLocale
    /\ locCall = NoLocCall
    /\ locResult = NoLocResult
    /\ locUsed = NoUse
    /\ accepted = DefaultLocale
    /\ prior = NoPrior
    /\ tasks = NoTasks

\* the globals change between any two steps of the program
SetGlobals ==
    /\ build = "dual"
    /\ \E w \in BOOLEAN, d \in BOOLEAN :
          /\ <<w, d>> # <<window, document>>
          /\ window' = w
          /\ document' = d
          /\ seen' = IF pc = "done" THEN seen ELSE [window |-> w, document |-> d]
    /\ UNCHANGED <<loc, tasks, build, fs, pc, call, result, stream, chunks, prior>>

\* a forward call: settled at once, or, for a stream, up to the first read
StartForward(cls, op, src, net) ==
    /\ build = cls
    /\ pc = "idle"
    /\ call' = Call(cls, op, src, net, << >>, NoName, "", << >>)
    /\ IF src.kind = "ReadableStream"
       THEN /\ pc' = "reading"
            /\ result' = Pending(<<"getReader">>)
            /\ stream' = src.chunks
       ELSE /\ pc' = "done"
            /\ result' = IF cls = "dual" THEN fileTo(op, src, net, isBrowser)
                         ELSE PathFileTo(src, net)
            /\ stream' = << >>
    /\ chunks' = << >>
    /\ seen' = Globals
    /\ prior' = NoPrior
    /\ UNCHANGED <<loc, tasks, build, window, document, fs>>

FileToBase64 ==
    /\ build = "dual" /\ pc = "idle"
    /\ \E src \in DualSources : \E net \in NetChoices(src) :
        StartForward("dual", "fileToBase64", src, net)

FileToHex ==
    /\ build = "dual" /\ pc = "idle"
    /\ \E src \in DualSources : \E net \in NetChoices(src) :
        StartForward("dual", "fileToHex", src, net)

\* one reader.read() settles: a chunk is pushed; or the stream is done and
\* the chunks are concatenated and encoded; or the read rejects
StreamRead ==
    /\ pc = "reading"
    /\ IF stream # << >>
       THEN /\ chunks' = Append(chunks, Head(stream))
            /\ stream' = Tail(stream)
            /\ result' = Pending(Append(result.steps, "read"))
            /\ pc' = "reading"
       ELSE /\ result' = IF call.cls = "dual"
                         THEN convertFromStreamEnd(call.op, call.src.fate, chunks,
                                                   isBrowser, result.steps)
                         ELSE PathConvertFromStreamEnd(call.src.fate, chunks,
                                                       result.steps)
            /\ pc' = "done"
            /\ UNCHANGED <<stream, chunks>>
    /\ seen' = Globals
    /\ UNCHANGED <<loc, tasks, build, window, document, fs, call, prior>>

\* a reverse call of the dual-environment class
ToFile(op, text, fileName, origin) ==
    /\ build = "dual"
    /\ call' = Call("dual", op, NoSource, NoNet, text, fileName, "", origin)
    /\ result' = CatchRethrow(ToFileTry(op, isBrowser, text, fileName))
    /\ pc' = "done"
    /\ stream' = << >>
    /\ chunks' = << >>
    /\ seen' = Globals
    /\ prior' = IF pc = "idle" THEN prior ELSE NoPrior
    /\ UNCHANGED <<loc, tasks, build, window, document, fs>>

\* base64ToFile(text, fileName): on a sample text, or on the text the
\* fileToBase64 call before it returned
Base64ToFile ==
    /\ build = "dual"
    /\ \E fileName \in FileNames :
        \/ /\ pc = "idle"
           /\ \E text \in Base64Samples : ToFile("base64ToFile", text, fileName, << >>)
        \/ /\ pc = "done"
           /\ call.cls = "dual" /\ call.op = "fileToBase64"
           /\ result.val.type = "text"
           /\ ToFile("base64ToFile", result.val.text, fileName, <<Content(call)>>)

HexToFile ==
    /\ build = "dual"
    /\ \E fileName \in FileNames :
        \/ /\ pc = "idle"
           /\ \E text \in HexSamples : ToFile("hexToFile", text, fileName, << >>)
        \/ /\ pc = "done"
           /\ call.cls = "dual" /\ call.op = "fileToHex"
           /\ result.val.type = "text"
           /\ ToFile("hexToFile", result.val.text, fileName, <<Content(call)>>)

PathFileToBase64 ==
    /\ build = "path" /\ pc = "idle"
    /\ \E src \in PathSources : \E net \in NetChoices(src) :
        StartForward("path", "fileToBase64", src, net)

\* fileToHex(filePath): the argument is always read as a file; net is what
\* a GET of the string would be answered, were one made
PathFileToHex ==
    /\ build = "path"
    /\ pc = "idle"
    /\ \E src \in StringSources : \E net \in NetChoices(src) :
          /\ call' = Call("path", "fileToHex", src, net, << >>, NoName, "", << >>)
          /\ result' = PathReadFile("fileToHex", src.str.text)
    /\ pc' = "done"
    /\ seen' = Globals
    /\ UNCHANGED <<loc, tasks, build, window, document, fs, stream, chunks, prior>>

\* a reverse call of the path-writing class, up to its await: the text is
\* decoded and the write is handed to the file system
PathToFile(op, text, outputPath) ==
    /\ build = "path"
    /\ pc = "idle"
    /\ call' = Call("path", op, NoSource, NoNet, text, NoName, outputPath, << >>)
    /\ result' = PathToFileStart(op, text, outputPath)
    /\ pc' = "writing"
    /\ seen' = Globals
    /\ UNCHANGED <<loc, tasks, build, window, document, fs, stream, chunks, prior>>

\* the file system opens the destination, which empties it
WriteFileOpens ==
    /\ pc = "writing"
    /\ DirectoryExists(call.outputPath)
    /\ fs' = openFile(call.outputPath)
    /\ pc' = "flushing"
    /\ UNCHANGED <<loc, tasks, build, window, document, call, result, stream, chunks, seen,
                   prior>>

\* the write settles, with all the bytes written or with its error, and the
\* call, which awaited it, settles with it
WriteFileSettles ==
    /\ \/ pc = "flushing"
       \/ pc = "writing" /\ ~DirectoryExists(call.outputPath)
    /\ fs' = writeFile(call.outputPath, PathDecode(call.op, call.text))
    /\ result' = CatchRethrow(PathToFileTry(call.op, call.text, call.outputPath))
    /\ pc' = "done"
    /\ UNCHANGED <<loc, tasks, build, window, document, call, stream, chunks, seen, prior>>

PathBase64ToFile ==
    /\ build = "path" /\ pc = "idle"
    /\ \E text \in PathBase64Samples, outputPath \in Paths :
        PathToFile("base64ToFile", text, outputPath)

PathHexToFile ==
    /\ build = "path" /\ pc = "idle"
    /\ \E text \in PathHexSamples, outputPath \in Paths :
        PathToFile("hexToFile", text, outputPath)

\* the caller takes the settled promise
Return ==
    /\ pc = "done"
    /\ pc' = "idle"
    /\ call' = NoCall
    /\ result' = Pending(<< >>)
    /\ stream' = << >>
    /\ chunks' = << >>
    /\ seen' = Globals
    /\ prior' = IF call.cls # "dual" THEN NoPrior
                ELSE IF seen.window /\ seen.document THEN "browser" ELSE "server"
    /\ UNCHANGED <<loc, tasks, build, window, document, fs>>

Next ==
    \/ SetGlobals
    \/ FileToBase64
    \/ FileToHex
    \/ StreamRead
    \/ Base64ToFile
    \/ HexToFile
    \/ PathFileToBase64
    \/ PathFileToHex
    \/ PathBase64ToFile
    \/ PathHexToFile
    \/ WriteFileOpens
    \/ WriteFileSettles
    \/ Return

Spec == Init /\ [][Next]_vars

(***************************************************************************)
(* The Localization class on its own: its static field lives as long as    *)
(* the program, and no FileConverter call reads or writes it.              *)
(***************************************************************************)
\* the FileConverter variables, which no Localization call touches
fc == <<build, window, document, fs, pc, call, result, stream, chunks, seen, prior>>

InitLoc ==
    /\ build = "dual"
    /\ window = FALSE
    /\ document = FALSE
    /\ fs = InitialFiles
    /\ pc = "idle"
    /\ call = NoCall
    /\ result = Pending(<< >>)
    /\ stream = << >>
    /\ chunks = << >>
    /\ seen = Globals
    /\ currentLocale = DefaultLocale
    /\ locCall = NoLocCall
    /\ locResult = NoLocResult
    /\ locUsed = NoUse
    /\ accepted = DefaultLocale
    /\ prior = NoPrior
    /\ tasks = NoTasks

\* Localization.setLocale(localeCode)
SetLocale ==
    \E localeCode \in LocaleCodes :
        LET try == setLocaleTry(localeCode)
        IN  /\ currentLocale' = IF try.assigned # << >> THEN try.assigned[1]
                                ELSE currentLocale
            /\ locCall' = LocCall("setLocale", localeCode.text, Prev)
            /\ locResult' = IF try.thrown # "" THEN LocThrown(setLocaleCatch(try.thrown))
                            ELSE LocReturned("")
            /\ locUsed' = NoUse
            /\ accepted' = IF locResult'.kind = "returned" THEN localeCode.text
                           ELSE accepted
            /\ UNCHANGED <<fc, tasks>>

\* Localization.getLocale()
GetLocale ==
    /\ locCall' = LocCall("getLocale", "", Prev)
    /\ locResult' = LocReturned(currentLocale)
    /\ locUsed' = NoUse
    /\ UNCHANGED <<fc, tasks, currentLocale, accepted>>

\* a formatting call: it reads the current locale and changes nothing
Format(op, arg, answer) ==
    /\ locCall' = LocCall(op, arg, Prev)
    /\ locResult' = LocReturned(answer.value)
    /\ locUsed' = answer.used
    /\ UNCHANGED <<fc, tasks, currentLocale, accepted>>

\* Localization.formatNumber(number)
FormatNumber ==
    \E number \in Numbers : Format("formatNumber", number, formatNumber(ReadLocale, number))

\* Localization.formatCurrency(number, currencyCode)
FormatCurrency ==
    \E number \in Numbers, currencyCode \in CurrencyCodes :
        Format("formatCurrency", number, formatCurrency(ReadLocale, number, currencyCode))

\* Localization.formatDate(date, options)
FormatDate ==
    \E date \in Dates, options \in DateOptions :
        Format("formatDate", date, formatDate(ReadLocale, date, options))

\* Localization.formatPhoneNumber(phoneNumber)
FormatPhoneNumber ==
    \E phoneNumber \in PhoneNumbers :
        \E answer \in PhoneNumberHandler(phoneNumber, RegionArgument(ReadLocale)) :
            LET try == formatPhoneNumberTry(ReadLocale, phoneNumber, answer)
            IN  /\ locCall' = LocCall("formatPhoneNumber", phoneNumber, Prev)
                /\ locResult' = formatPhoneNumberCatch(try, phoneNumber)
                /\ locUsed' = try.used
                /\ UNCHANGED <<fc, tasks, currentLocale, accepted>>

NextLoc ==
    \/ SetLocale
    \/ GetLocale
    \/ FormatNumber
    \/ FormatCurrency
    \/ FormatDate
    \/ FormatPhoneNumber

SpecLoc == InitLoc /\ [][NextLoc]_vars

(***************************************************************************)
(* Stream conversions of the dual-environment class running together: the  *)
(* calls are async functions on one thread, and each gives way to the      *)
(* others at its await reader.read().                                      *)
(***************************************************************************)
\* the program runs in a browser or on a server
InitStreams ==
    /\ build = "dual"
    /\ window \in BOOLEAN
    /\ document = window
    /\ fs = InitialFiles
    /\ pc = "idle"
    /\ call = NoCall
    /\ result = Pending(<< >>)
    /\ stream = << >>
    /\ chunks = << >>
    /\ seen = Globals
    /\ currentLocale = DefaultLocale
    /\ locCall = NoLocCall
    /\ locResult = NoLocResult
    /\ locUsed = NoUse
    /\ accepted = DefaultLocale
    /\ prior = NoPrior
    /\ tasks = NoTasks

\* fileToBase64(stream) / fileToHex(stream): the call runs up to its first
\* await, with a reader on its stream and an empty chunks array
TaskStart(t) ==
    /\ tasks[t].pc = "idle"
    /\ \E op \in {"fileToBase64", "fileToHex"}, src \in TaskStreams :
          tasks' = [tasks EXCEPT
                       ![chunksOf(t)].chunks = << >>,
                       ![t].pc = "loop",
                       ![t].op = op,
                       ![t].src = src,
                       ![t].left = src.chunks,
                       ![t].issued = 0,
                       ![t].settled = 0,
                       ![t].done = FALSE,
                       ![t].result = Pending(<<"getReader">>)]
    /\ UNCHANGED <<fc, loc>>

\* await reader.read(): the read is issued and the call gives way
TaskIssueRead(t) ==
    /\ tasks[t].pc = "loop"
    /\ tasks' = [tasks EXCEPT ![t].pc = "awaiting", ![t].issued = @ + 1]
    /\ UNCHANGED <<fc, loc>>

\* the read of call t settles and the call goes on: a chunk is pushed and
\* the loop goes round; or done is set, the loop ends and the chunks are
\* concatenated and encoded; or the read rejected and the catch returns null
ReadSettled(t) ==
    LET me == tasks[t]
        pulled == tasks[chunksOf(t)].chunks
        readerDone == me.left = << >>
        now == IF readerDone THEN pulled ELSE Append(pulled, Head(me.left))
    IN  IF readerDone /\ me.src.fate = "error"
        THEN [tasks EXCEPT
                 ![t].settled = @ + 1,
                 ![t].pc = "done",
                 ![t].result = StreamEnds[me.op, "error", pulled, isBrowser]]
        ELSE [tasks EXCEPT
                 ![chunksOf(t)].chunks = now,
                 ![t].settled = @ + 1,
                 ![t].left = IF readerDone THEN << >> ELSE Tail(@),
                 ![t].done = readerDone,
                 ![t].pc = IF LoopContinues(readerDone) THEN "loop" ELSE "done",
                 ![t].result = IF LoopContinues(readerDone) THEN @
                               ELSE StreamEnds[me.op, "ok", now, isBrowser]]
TaskReadSettles(t) ==
    /\ tasks[t].pc = "awaiting"
    /\ tasks' = ReadSettled(t)
    /\ UNCHANGED <<fc, loc>>

\* the caller takes the settled promise of the call
TaskReturn(t) ==
    /\ tasks[t].pc = "done"
    /\ tasks' = [tasks EXCEPT ![t] = NoTask]
    /\ UNCHANGED <<fc, loc>>

NextStreams ==
    \E t \in Tasks :
        \/ TaskStart(t)
        \/ TaskIssueRead(t)
        \/ TaskReadSettles(t)
        \/ TaskReturn(t)

SpecStreams == InitStreams /\ [][NextStreams]_vars

\* the event loop runs every continuation that is ready, and a stream that
\* closes or fails settles every read issued on it
SpecStreamsFair ==
    /\ SpecStreams
    /\ \A t \in Tasks : WF_vars(TaskIssueRead(t)) /\ WF_vars(TaskReadSettles(t))

(***************************************************************************)
(* Properties.                                                             *)
(***************************************************************************)
ForwardOps == {"fileToBase64", "fileToHex"}
ReverseOps == {"base64ToFile", "hexToFile"}
ForwardDone == pc = "done" /\ call.op \in ForwardOps
ReverseDone == pc = "done" /\ call.op \in ReverseOps
\* a reverse call given the text a forward call returned for the bytes origin[1]
RoundTripDone(op) ==
    pc = "done" /\ call.cls = "dual" /\ call.op = op /\ call.origin # << >>
\* the environment the settled call ran in was a browser
RanInBrowser == seen.window /\ seen.document
NameMissing == ~call.fileName.given \/ call.fileName.name = ""
Has(steps, step) == \E i \in 1..Len(steps) : steps[i] = step

\* C1: hex round trip.  A hexToFile call given the text that fileToHex
\* returned for a byte sequence b resolves to an artifact holding exactly b,
\* whichever environment encoded and whichever decodes; the one call that
\* returns no artifact is the browser call without a name, which is
\* rejected for the missing name.
HexRoundTrip ==
    RoundTripDone("hexToFile") =>
        IF RanInBrowser /\ NameMissing
        THEN result.kind = "rejected" /\ result.val.error = MissingName
        ELSE result.kind = "resolved" /\ result.val.bytes = call.origin[1]

\* reached: a browser decode of the text of three bytes, one below 16 and
\* one above 127
HexRoundTripWitness ==
    /\ RoundTripDone("hexToFile")
    /\ RanInBrowser
    /\ call.origin[1] = <<0, 10, 255>>
    /\ result.val.type = "File"
    /\ result.val.bytes = <<0, 10, 255>>

\* C2: base64 round trip.  A base64ToFile call given the text that
\* fileToBase64 returned for a byte sequence b (the empty one and bytes
\* >= 128 included) resolves to an artifact holding exactly b, in the server
\* path and in the browser path; only the browser call without a name is
\* rejected, for the missing name.
Base64RoundTrip ==
    RoundTripDone("base64ToFile") =>
        IF RanInBrowser /\ NameMissing
        THEN result.kind = "rejected" /\ result.val.error = MissingName
        ELSE result.kind = "resolved" /\ result.val.bytes = call.origin[1]

\* reached: a server decode of the padded text of two bytes, one >= 128
Base64RoundTripWitness ==
    /\ RoundTripDone("base64ToFile")
    /\ ~RanInBrowser
    /\ call.origin[1] = <<171, 255>>
    /\ call.text[Len(call.text)] = "="
    /\ result.val.type = "Buffer"
    /\ result.val.bytes = <<171, 255>>

\* C3: cross-environment equivalence.  Whenever a forward call of the
\* dual-environment class has acquired its bytes, the text it returns is
\* non-null and is, character for character, both what the server-path
\* encoder and what the browser-path encoder give for those bytes.
CrossEnvironmentEquivalence ==
    (ForwardDone /\ call.cls = "dual" /\ result.thrown = "") =>
        /\ result.kind = "resolved"
        /\ result.val.type = "text"
        /\ Encode(call.op, TRUE, Content(call)).ok
        /\ Encode(call.op, FALSE, Content(call)).ok
        /\ result.val.text = Encode(call.op, TRUE, Content(call)).value
        /\ result.val.text = Encode(call.op, FALSE, Content(call)).value

\* reached: a File encoded to hex in a browser, with a byte below 16
CrossEnvironmentWitness ==
    /\ ForwardDone /\ call.cls = "dual" /\ call.op = "fileToHex"
    /\ RanInBrowser
    /\ call.src.kind = "File"
    /\ call.src.bytes = <<10, 171, 0>>
    /\ result.val.text = <<"0", "a", "a", "b", "0", "0">>

\* C4: stream order preservation.  A stream that emits the chunks c1..cn
\* and closes gives the text that one buffer equal to c1 ++ ... ++ cn gives,
\* whatever the partition into chunks, empty chunks included.
StreamOrderPreservation ==
    (ForwardDone /\ call.src.kind = "ReadableStream" /\ call.src.fate = "ok") =>
        /\ result.kind = "resolved"
        /\ result.val = convertFromBuffer(call.op,
               Source("Buffer", NoString, Flatten(call.src.chunks), << >>, "ok")).val

\* reached: three chunks, the middle one empty, read to the end in a browser
StreamOrderWitness ==
    /\ ForwardDone /\ call.cls = "dual" /\ call.op = "fileToBase64"
    /\ RanInBrowser
    /\ call.src.chunks = << <<10>>, << >>, <<255, 10>> >>
    /\ call.src.fate = "ok"
    /\ result.val.text = <<"C", "v", "8", "K">>

\* C5: the forward direction swallows every failure.  The promise of
\* fileToBase64 and of fileToHex is never rejected; it resolves to null
\* whenever something was thrown inside the call, and in particular for a
\* source of no accepted type, a handle, a fetch or a stream read that
\* fails, and a file that does not exist.
ForwardNeverRejects ==
    (call.op \in ForwardOps) =>
        /\ result.kind # "rejected"
        /\ pc = "done" =>
              /\ result.kind = "resolved"
              /\ result.val.type \in {"null", "text"}
              /\ result.thrown # "" => result.val = NullValue
              /\ call.src.kind = "number" => result.val = NullValue
              /\ call.src.fate = "error" => result.val = NullValue
              /\ call.net.failed => result.val = NullValue
              /\ (call.cls = "path" /\ call.src.kind = "string" /\ ~isURL(call.src.str)
                    /\ ~fs[call.src.str.text].exists) => result.val = NullValue

\* reached: the number 123 given to fileToHex resolves to null
ForwardNullWitness ==
    /\ ForwardDone /\ call.cls = "dual" /\ call.op = "fileToHex"
    /\ call.src.kind = "number"
    /\ result.kind = "resolved"
    /\ result.val = NullValue
    /\ result.thrown = InvalidSource

\* C6: the reverse direction propagates failures.  Whenever something is
\* thrown inside base64ToFile or hexToFile, of either class, the promise is
\* rejected with that same error: a write into a directory that does not
\* exist rejects with the write's error, a browser decode that throws
\* rejects with the decoder's error, and a missing name with its error.
ReversePropagatesFailures ==
    ReverseDone =>
        /\ result.thrown # "" =>
              result.kind = "rejected" /\ result.val = ErrorValue(result.thrown)
        /\ (call.cls = "path" /\ ~DirectoryExists(call.outputPath)) =>
              result.kind = "rejected" /\ result.val.error = "ENOENT"
        /\ (call.cls = "dual" /\ call.op = "base64ToFile" /\ RanInBrowser
              /\ ~atob(call.text).ok) =>
              result.kind = "rejected" /\ result.val.error = atob(call.text).error
        /\ (call.cls = "dual" /\ RanInBrowser /\ NameMissing
              /\ ReverseDecode(call.op, TRUE, call.text).ok) =>
              result.kind = "rejected" /\ result.val.error = MissingName

\* reached: base64ToFile of the path-writing class on a destination in a
\* directory that does not exist is rejected
ReverseRejectsWitness ==
    /\ ReverseDone /\ call.cls = "path" /\ call.op = "base64ToFile"
    /\ call.outputPath = LostString.text
    /\ result.kind = "rejected"
    /\ result.val.error = "ENOENT"
    /\ ~fs[LostString.text].exists

\* C7: in browser mode a reverse call without a name fails for the missing
\* name before any decode is attempted: whatever the text, the error is the
\* missing name and no decode step has run.
NameCheckedBeforeDecode ==
    (ReverseDone /\ call.cls = "dual" /\ RanInBrowser /\ NameMissing) =>
        /\ result.kind = "rejected"
        /\ result.val.error = MissingName
        /\ ~Has(result.steps, "decode")

\* C8: hex decode rejects malformed input: hexToFile on a text of odd
\* length or holding a character that is no hex digit is rejected, in both
\* environments.
HexDecodeRejectsMalformed ==
    (ReverseDone /\ call.cls = "dual" /\ call.op = "hexToFile" /\ ~IsHexText(call.text)) =>
        result.kind = "rejected"

\* C9: base64 decode fails cleanly on malformed input: base64ToFile on a
\* text that is not standard-alphabet padded base64 is rejected, in both
\* environments.
Base64DecodeRejectsMalformed ==
    (ReverseDone /\ call.cls = "dual" /\ call.op = "base64ToFile"
        /\ ~IsPaddedBase64(call.text)) =>
        result.kind = "rejected"

\* C10: the reconstruction contract.  The reverse conversion of the forward
\* encoding of b returns, in server mode, a Buffer equal to b and, in
\* browser mode with a name, a File of that name holding b; and whatever
\* the text, a resolved reverse call returns a File exactly when the
\* environment is a browser, and a Buffer otherwise.
ReconstructionContract ==
    (ReverseDone /\ call.cls = "dual") =>
        /\ result.kind = "resolved" =>
              /\ result.val.type = (IF RanInBrowser THEN "File" ELSE "Buffer")
              /\ result.val.name = (IF RanInBrowser THEN call.fileName.name ELSE "")
        /\ (call.origin # << >> /\ ~RanInBrowser) =>
              /\ result.kind = "resolved"
              /\ result.val = BufferValue(call.origin[1])
        /\ (call.origin # << >> /\ RanInBrowser /\ ~NameMissing) =>
              /\ result.kind = "resolved"
              /\ result.val = FileValue(call.origin[1], call.fileName.name)

\* reached: the hex text of two bytes rebuilt in a browser as a named File
ReconstructionWitness ==
    /\ RoundTripDone("hexToFile")
    /\ RanInBrowser
    /\ call.text = <<"f", "f", "0", "a">>
    /\ call.fileName.name = "hello.txt"
    /\ result.val = FileValue(<<255, 10>>, "hello.txt")

\* C11: file path in server mode.  A fileToBase64 call given a string that
\* is no URL, made while the environment is no browser, resolves to the
\* base64 text of the whole content of the file at that path when the file
\* is there, and to null when it is not; it never rejects.
FilePathRead ==
    (ForwardDone /\ call.op = "fileToBase64" /\ call.src.kind = "string"
        /\ ~isURL(call.src.str) /\ ~RanInBrowser) =>
        /\ result.kind = "resolved"
        /\ result.val = IF fs[call.src.str.text].exists
                        THEN TextValue(BufferToBase64(fs[call.src.str.text].bytes))
                        ELSE NullValue

\* C12: File and Blob sources.  A forward call of the dual-environment
\* class on a readable File or Blob resolves to the encoding of all the
\* bytes the handle holds, whatever its name and media type: the handle of
\* "Test content" gives "VGVzdCBjb250ZW50" in base64 and the handle of
\* "Hex content" gives "48657820636f6e74656e74" in hex.
HandleEncoding ==
    (ForwardDone /\ call.cls = "dual" /\ call.src.kind \in {"File", "Blob"}
        /\ call.src.fate = "ok") =>
        /\ result.kind = "resolved"
        /\ result.val = TextValue(IF call.op = "fileToBase64"
                                  THEN BufferToBase64(call.src.bytes)
                                  ELSE BufferToHex(call.src.bytes))
        /\ (call.src.bytes = TestContent /\ call.op = "fileToBase64")
              => result.val.text = TestContentBase64
        /\ (call.src.bytes = HexContent /\ call.op = "fileToHex")
              => result.val.text = HexContentHex

\* reached: the File of the test, encoded in a browser
HandleEncodingWitness ==
    /\ ForwardDone /\ RanInBrowser
    /\ call.src = Handle("File", TestContent, "test-file.txt", "text/plain")
    /\ call.op = "fileToBase64"
    /\ result.val.text = TestContentBase64

\* the other forward entry point, and what it returns for the source of the
\* settled call in the same environment, file system and network
OtherOp == IF call.op = "fileToBase64" THEN "fileToHex" ELSE "fileToBase64"
StepsOfReads == <<"getReader">> \o [i \in 1..Len(chunks) |-> "read"]
Counterpart ==
    IF call.cls = "dual"
    THEN IF call.src.kind = "ReadableStream"
         THEN convertFromStreamEnd(OtherOp, call.src.fate, chunks, RanInBrowser,
                                   StepsOfReads)
         ELSE fileTo(OtherOp, call.src, call.net, RanInBrowser)
    ELSE PathFileTo(call.src, call.net)
\* the bytes a forward result stands for
BytesOf(op, val) ==
    IF op = "fileToBase64" THEN BufferFromBase64(val.text) ELSE BufferFromHex(val.text)
\* what a call did to get its bytes: its steps but those of the encoding
Acquisition(steps) == SelectSeq(steps, LAMBDA x : x \notin {"isBrowser", "encode"})

\* C13: the two forward entry points take the same sources.  For the source
\* of every settled forward call, the other entry point acquires the bytes
\* the same way (the same variant), returns null exactly when this one
\* does, and otherwise encodes the same bytes.
SameSourceVariants ==
    (ForwardDone /\ (call.cls = "dual" \/ call.op = "fileToHex")) =>
        /\ Acquisition(Counterpart.steps) = Acquisition(result.steps)
        /\ (Counterpart.val = NullValue) <=> (result.val = NullValue)
        /\ result.val # NullValue =>
              BytesOf(OtherOp, Counterpart.val) = BytesOf(call.op, result.val)

\* how many times a call did a step
Count(steps, step) == Len(SelectSeq(steps, LAMBDA x : x = step))
\* the settled call went down the URL branch: its source is a string that
\* parses as a URL, given to an entry point that classifies its sources (the
\* path-writing fileToHex reads every string as a file path)
TakenAsURL ==
    /\ call.src.kind = "string"
    /\ isURL(call.src.str)
    /\ ~(call.cls = "path" /\ call.op = "fileToHex")
StatusOK(net) == net.status >= 200 /\ net.status <= 299

URLNullUnlessSuccess ==
    (ForwardDone /\ TakenAsURL) =>
        IF call.net.failed \/ ~StatusOK(call.net)
        THEN result.val = NullValue
        ELSE /\ result.val.type = "text"
             /\ BytesOf(call.op, result.val) = call.net.body

\* C16: the path-writing reverse calls resolve after the write.  Whenever
\* the promise of a base64ToFile or hexToFile call of the path-writing
\* class is resolved, the destination exists and holds exactly the bytes
\* the text decodes to: for "VGVzdCBjb250ZW50" the twelve bytes of "Test
\* content".
WriteCompletesBeforeResolve ==
    (call.cls = "path" /\ call.op \in ReverseOps /\ result.kind = "resolved") =>
        /\ fs[call.outputPath] =
              [exists |-> TRUE, bytes |-> PathDecode(call.op, call.text)]
        /\ call.text = TestContentBase64 => fs[call.outputPath].bytes = TestContent

\* reached: the text of the test written over a file that held other bytes
WriteCompletesWitness ==
    /\ call.cls = "path" /\ call.op = "base64ToFile" /\ result.kind = "resolved"
    /\ call.text = TestContentBase64
    /\ call.outputPath = InString.text
    /\ fs[InString.text].bytes = TestContent

\* the bytes a settled forward call had to encode: those of the file at the
\* path for a string read as a path, else those the source holds
EncodedBytes ==
    IF call.src.kind = "string" /\ ~TakenAsURL THEN fs[call.src.str.text].bytes
    ELSE Content(call)
LowerHexDigits == {HexChars[i] : i \in 1..Len(HexChars)}
DigitValue(c) == IndexOf(HexChars, c) - 1

\* C17: the format of the hex encoding.  The text a fileToHex call returns
\* for N bytes has 2N characters, all of them lowercase hex digits, and its
\* i-th pair is the value of the i-th byte written with two digits (so with
\* a leading 0 below 16): nothing stands before, between or after the pairs.
HexEncodeFormat ==
    (ForwardDone /\ call.op = "fileToHex" /\ result.val.type = "text") =>
        /\ Len(result.val.text) = 2 * Len(EncodedBytes)
        /\ \A i \in 1..Len(EncodedBytes) :
              /\ result.val.text[2 * i - 1] \in LowerHexDigits
              /\ result.val.text[2 * i] \in LowerHexDigits
              /\ 16 * DigitValue(result.val.text[2 * i - 1])
                    + DigitValue(result.val.text[2 * i]) = EncodedBytes[i]

\* reached: a browser encoding of a byte that needs the leading 0, one with
\* a letter digit and one above 127
HexEncodeWitness ==
    /\ ForwardDone /\ RanInBrowser /\ call.op = "fileToHex"
    /\ call.src.kind = "File"
    /\ call.src.bytes = <<0, 10, 255>>
    /\ result.val.text = <<"0", "0", "0", "a", "f", "f">>

\* C18: the format of the base64 encoding.  The text a fileToBase64 call
\* returns for N bytes has ceil(N/3)*4 characters (none for N = 0); its last
\* (3 - N mod 3) mod 3 characters are '=' and all the others are characters
\* of the standard alphabet.
Base64EncodeFormat ==
    (ForwardDone /\ call.op = "fileToBase64" /\ result.val.type = "text") =>
        LET N == Len(EncodedBytes)
            padding == (3 - (N % 3)) % 3
        IN  /\ Len(result.val.text) = ((N + 2) \div 3) * 4
            /\ \A i \in 1..Len(result.val.text) :
                  IF i > Len(result.val.text) - padding
                  THEN result.val.text[i] = "="
                  ELSE IndexOf(B64Chars, result.val.text[i]) > 0

\* reached: a browser encoding of one byte, which takes two '='
Base64EncodeWitness ==
    /\ ForwardDone /\ RanInBrowser /\ call.op = "fileToBase64"
    /\ call.src.kind = "File"
    /\ call.src.bytes = <<255>>
    /\ result.val.text = <<"/", "w", "=", "=">>

\* what a code given to setLocale is for the host
IsSupported(text) == \E c \in SupportedCodes : c.text = text
IsUnsupportedTag(text) == \E c \in UnsupportedCodes : c.text = text
IsMalformed(text) == \E c \in MalformedCodes : c.text = text

\* C19: setLocale stores the code as given.  A setLocale call with a code
\* the host supports returns, and leaves that very string, letter for
\* letter, in currentLocale; the getLocale call that follows it returns it.
SetLocaleKeepsCode ==
    /\ (locCall.op = "setLocale" /\ IsSupported(locCall.arg)) =>
          locResult.kind = "returned" /\ currentLocale = locCall.arg
    /\ (locCall.op = "getLocale" /\ locCall.prev.op = "setLocale"
           /\ IsSupported(locCall.prev.arg)) =>
          locResult = LocReturned(locCall.prev.arg)

\* reached: getLocale right after setLocale('FR') returns 'FR', whose
\* canonical form is 'fr'
SetLocaleKeepsCodeWitness ==
    /\ locCall.op = "getLocale"
    /\ locCall.prev = [op |-> "setLocale", arg |-> "FR", kind |-> "returned"]
    /\ locResult = LocReturned("FR")

\* C20 as stated: setLocale with any code that is not supported throws an
\* Error with the message "An error occurred: Locale '<code>' is not
\* supported.".
UnsupportedLocaleMessage ==
    (locCall.op = "setLocale" /\ ~IsSupported(locCall.arg)) =>
        locResult = LocThrown("An error occurred: Locale '" \o locCall.arg
                                  \o "' is not supported.")

\* C20, amended: setLocale with a valid language tag the host has no data
\* for throws an Error with the message "An error occurred: Locale '<code>'
\* is not supported."; with a string that is no language tag it throws an
\* Error whose message is "An error occurred: " followed by the message of
\* the host's RangeError.  In both cases currentLocale keeps its value.
UnsupportedLocaleMessageAmended ==
    locCall.op = "setLocale" =>
        /\ IsUnsupportedTag(locCall.arg) =>
              locResult = LocThrown("An error occurred: Locale '" \o locCall.arg
                                        \o "' is not supported.")
        /\ IsMalformed(locCall.arg) =>
              locResult = LocThrown("An error occurred: " \o IncorrectLocale)
        /\ (~IsSupported(locCall.arg) /\ locCall.prev.op = "setLocale"
               /\ locCall.prev.kind = "returned") =>
              currentLocale = locCall.prev.arg

\* reached: the call of the test, after a locale was set
UnsupportedLocaleWitness ==
    /\ locCall.op = "setLocale" /\ locCall.arg = "invalid-locale"
    /\ locCall.prev = [op |-> "setLocale", arg |-> "es-ES", kind |-> "returned"]
    /\ locResult = LocThrown("An error occurred: Locale 'invalid-locale' is not supported.")
    /\ currentLocale = "es-ES"

\* C21: formatPhoneNumber by the region of the locale.  When the current
\* locale has a region, a formatPhoneNumber call returns the national
\* format of a number that is valid for that region, and the input
\* unchanged for a number that is not.
PhoneNationalOrUnchanged ==
    (locCall.op = "formatPhoneNumber" /\ CodeOf(currentLocale).region # "") =>
        locResult = LocReturned(
            IF IsValidFor(locCall.arg, CodeOf(currentLocale).region)
            THEN NationalFormat(locCall.arg, CodeOf(currentLocale).region)
            ELSE locCall.arg)

FormatOps == {"formatNumber", "formatCurrency", "formatDate", "formatPhoneNumber"}

\* C22: formatting follows the current locale.  Every formatting call
\* hands to the host the argument of the most recent setLocale that
\* returned ('en-US' when none has): the text it returns is the host's for
\* that locale, and the phone region is taken from that locale.
FormatsWithCurrentLocale ==
    locCall.op \in FormatOps =>
        /\ locUsed.locale = accepted
        /\ locUsed.outcome = "formatted" =>
              locResult = LocReturned(HostText(locUsed.style, accepted, locUsed.option,
                                               locCall.arg))
        /\ locUsed.style = "phone" => locUsed.option = RegionArgument(accepted)

\* reached: a currency formatted for 'FR' although a setLocale call, which
\* threw, came between
FormatsWithCurrentLocaleWitness ==
    /\ locCall.op = "formatCurrency" /\ locCall.arg = "1234.56"
    /\ locCall.prev = [op |-> "setLocale", arg |-> "invalid-locale", kind |-> "thrown"]
    /\ accepted = "FR"
    /\ locUsed = Use("FR", "currency", "EUR", "formatted")
    /\ locResult = LocReturned("currency[fr|EUR]1234.56")

\* C29: the locale state.  The current locale is always the argument of the
\* most recent setLocale call that returned, or 'en-US' when none has, and
\* it is a code the host supports: a setLocale that throws, a getLocale and
\* a formatting call leave it as it was.
LocaleStateInvariant ==
    /\ currentLocale = accepted
    /\ IsSupported(currentLocale)
    /\ ((locCall.op # "setLocale" \/ locResult.kind = "thrown")
           /\ locCall.prev.op = "setLocale" /\ locCall.prev.kind = "returned") =>
          currentLocale = locCall.prev.arg

\* reached: a setLocale call on a string that is no language tag throws and
\* the locale set before it stays
LocaleStateWitness ==
    /\ locCall.op = "setLocale" /\ locCall.arg = "en_US"
    /\ locResult.kind = "thrown"
    /\ locCall.prev = [op |-> "setLocale", arg |-> "ja-JP", kind |-> "returned"]
    /\ currentLocale = "ja-JP"

\* C30: formatPhoneNumber never throws.  Whatever the current locale and
\* the input, the call returns a string, and it returns the input itself
\* unless the library found the number valid: when the locale has no second
\* part to take the region from, when the library throws, and when it finds
\* the number invalid.
PhoneNeverThrows ==
    locCall.op = "formatPhoneNumber" =>
        /\ locResult.kind = "returned"
        /\ locUsed.outcome # "valid" => locResult.value = locCall.arg
        /\ Len(CodeOf(currentLocale).parts) < 2 => locUsed.outcome = "TypeError"

\* reached: under 'FR', which has no region part, a French number comes
\* back as it was given
PhoneNeverThrowsWitness ==
    /\ locCall.op = "formatPhoneNumber" /\ locCall.arg = "01 23 45 67 89"
    /\ currentLocale = "FR"
    /\ locUsed.outcome = "TypeError"
    /\ locResult = LocReturned("01 23 45 67 89")

\* C28: a stream whose read fails, after any number of chunks were pulled,
\* makes the forward conversion resolve to null: the promise is pending
\* while the reads go on, it is never rejected, and no text encoding the
\* chunks pulled before the failure is returned.
StreamReadFailureGivesNull ==
    (call.op \in ForwardOps /\ call.src.kind = "ReadableStream"
        /\ call.src.fate = "error") =>
        /\ pc = "reading" => result.kind = "pending"
        /\ pc = "done" =>
              /\ result.kind = "resolved"
              /\ result.val = NullValue
              /\ result.thrown = "StreamError"
              /\ chunks = call.src.chunks

\* reached: two chunks pulled, then the read fails, and the call gives null
StreamReadFailureWitness ==
    /\ ForwardDone /\ call.cls = "dual"
    /\ call.src.kind = "ReadableStream" /\ call.src.fate = "error"
    /\ chunks = << <<10>>, <<255>> >>
    /\ result.kind = "resolved" /\ result.val = NullValue

\* C25: the bytes of a drained stream are laid out without gap, overlap or
\* loss.  The output buffer is as long as the chunks together; chunk k lies
\* at the offset that is the sum of the lengths of the chunks before it;
\* the offset after the last chunk is the total length; every chunk the
\* stream emitted was pulled; and a stream that closes without a chunk
\* gives the empty text, not null.
StreamLayout ==
    (ForwardDone /\ call.src.kind = "ReadableStream" /\ call.src.fate = "ok") =>
        LET concatenated == Concatenate(chunks)
        IN  /\ chunks = call.src.chunks
            /\ Len(concatenated) = SumLen(chunks)
            /\ \A k \in 1..Len(chunks) :
                  /\ OffsetAt(chunks, k, 1, 0) = SumLen(SubSeq(chunks, 1, k - 1))
                  /\ \A j \in 1..Len(chunks[k]) :
                        concatenated[OffsetAt(chunks, k, 1, 0) + j] = chunks[k][j]
            /\ OffsetAt(chunks, Len(chunks) + 1, 1, 0) = SumLen(chunks)
            /\ result.val.type = "text"
            /\ result.val.text = Encode(call.op, RanInBrowser /\ call.cls = "dual",
                                        concatenated).value
            /\ SumLen(chunks) = 0 => result.val = TextValue(<< >>)

\* reached: a stream of two chunks of different lengths, read to its end
StreamLayoutWitness ==
    /\ ForwardDone /\ call.src.kind = "ReadableStream" /\ call.src.fate = "ok"
    /\ chunks = << <<10, 255>>, <<255>> >>
    /\ result.val.type = "text"

\* reached: a stream that closes at once gives the empty text
StreamLayoutEmptyWitness ==
    /\ ForwardDone /\ call.src.kind = "ReadableStream" /\ call.src.fate = "ok"
    /\ chunks = << >>
    /\ result.val = TextValue(<< >>)

\* C26: the classification of a string source.  A string is taken as a URL
\* exactly when it has both a scheme and an authority: then, and only then,
\* a GET is issued; every other string is read as a local file by the
\* path-writing class and gives null, with no GET, in the dual-environment
\* class.  (The path-writing fileToHex, which classifies nothing, is left
\* aside.)
HasSchemeAndAuthority(str) == str.scheme # "" /\ str.authority # ""
URLClassification ==
    (ForwardDone /\ call.src.kind = "string"
        /\ ~(call.cls = "path" /\ call.op = "fileToHex")) =>
        IF HasSchemeAndAuthority(call.src.str)
        THEN Has(result.steps, "GET")
        ELSE /\ ~Has(result.steps, "GET")
             /\ call.cls = "path" => Has(result.steps, "readFile")
             /\ call.cls = "dual" => result.val = NullValue

\* the reads of every call come one after the other and to the end of the
\* stream: at most one read is outstanding, and only while the call waits;
\* every settled read but the last pushed one chunk; done is seen only with
\* the stream drained and nothing outstanding; and a text is returned only
\* once done was seen, from all the chunks the stream emitted
PullsInOrder ==
    \A t \in Tasks :
        LET me == tasks[t]
        IN  /\ me.issued = me.settled + (IF me.pc = "awaiting" THEN 1 ELSE 0)
            /\ me.pc \in {"loop", "awaiting"} => me.settled = Len(me.chunks) /\ ~me.done
            /\ me.done => /\ me.left = << >>
                          /\ me.pc = "done"
                          /\ me.issued = me.settled
            /\ (me.pc = "done" /\ me.result.val.type = "text") =>
                  /\ me.done
                  /\ me.chunks = me.src.chunks
                  /\ me.issued = Len(me.src.chunks) + 1
\* once a call has seen done it issues no read
NoReadAfterDone ==
    \A t \in Tasks : tasks[t].done => tasks'[t].issued <= tasks[t].issued
Closing(t) == tasks[t].pc # "idle" /\ tasks[t].src.fate = "ok"
ResolvedWithText(t) ==
    /\ tasks[t].pc = "done"
    /\ tasks[t].result.kind = "resolved"
    /\ tasks[t].result.val.type = "text"

\* C23: the pulls of a stream conversion are strictly sequential and run to
\* exhaustion.  Read N+1 is issued only after read N has settled, no read is
\* issued after done was seen, the encoding starts only after done was
\* seen; and every call on a stream that closes after finitely many chunks
\* eventually resolves with a text, never null.
SequentialPulls ==
    /\ []PullsInOrder
    /\ [][NoReadAfterDone]_vars
    /\ \A t \in Tasks : Closing(t) ~> ResolvedWithText(t)

\* reached: a call that pulled two chunks with three reads, saw done and
\* resolved with the text of the three bytes, while another call is waiting
\* for a read
SequentialPullsWitness ==
    /\ ResolvedWithText(1)
    /\ tasks[1].op = "fileToHex"
    /\ tasks[1].issued = 3 /\ tasks[1].settled = 3 /\ tasks[1].done
    /\ tasks[1].result.val.text = <<"0", "a", "f", "f", "0", "a">>
    /\ tasks[2].pc = "awaiting"

\* C24: stream conversions running together on distinct streams, their
\* reads interleaved, do not mix their chunks.  At every moment the chunks a
\* call holds are the first chunks of its own stream, in the order emitted;
\* and when its stream closes the call returns the encoding of exactly the
\* bytes of its own stream.
ConcurrentStreamsIsolated ==
    \A t \in Tasks :
        LET me == tasks[t]
        IN  me.pc # "idle" =>
              /\ Len(me.chunks) <= Len(me.src.chunks)
              /\ me.chunks = SubSeq(me.src.chunks, 1, Len(me.chunks))
              /\ (me.pc = "done" /\ me.src.fate = "ok") =>
                    /\ me.result.kind = "resolved"
                    /\ me.result.val = convertFromBuffer(me.op,
                           Source("Buffer", NoString, Flatten(me.src.chunks), << >>,
                                  "ok")).val
              /\ (me.pc = "done" /\ me.src.fate = "error") => me.result.val = NullValue

\* reached: two calls in flight on different streams, each with a chunk of
\* its own pulled and a further read outstanding
ConcurrentStreamsWitness ==
    /\ tasks[1].pc = "awaiting" /\ tasks[2].pc = "awaiting"
    /\ tasks[1].src.chunks = << <<10>>, <<255, 10>> >>
    /\ tasks[2].src.chunks = << <<255>> >>
    /\ tasks[1].chunks = << <<10>> >>
    /\ tasks[2].chunks = << <<255>> >>
    /\ tasks[1].op # tasks[2].op

\* C27: the environment is detected anew by every call and never kept.  A
\* reverse call is treated as made in a browser exactly when window and
\* document are both defined when it is made, whatever the environment the
\* call before it ran in: its text goes through the decoder of that
\* environment and its artifact is of the type of that same environment, a
\* File from the browser decoder or a Buffer from the Node decoder; and a
\* forward call encodes with the encoder of the environment it finds.
EnvironmentPerCall ==
    /\ (ReverseDone /\ call.cls = "dual") =>
          LET decoded == ReverseDecode(call.op, RanInBrowser, call.text)
          IN  /\ result.kind = "resolved" =>
                    /\ decoded.ok
                    /\ result.val.type = (IF RanInBrowser THEN "File" ELSE "Buffer")
                    /\ result.val.bytes = decoded.value
              /\ result.kind = "rejected" =>
                    \/ ~decoded.ok /\ result.thrown = decoded.error
                    \/ RanInBrowser /\ NameMissing /\ result.thrown = MissingName
              /\ result.kind \in {"resolved", "rejected"}
    /\ (ForwardDone /\ call.cls = "dual" /\ result.val.type = "text") =>
          result.val.text = Encode(call.op, RanInBrowser, Content(call)).value

\* reached: a reverse call made on a server right after a call that ran in
\* a browser: the text, which the browser decoder rejects, is decoded by
\* Node and comes back as a Buffer
EnvironmentPerCallWitness ==
    /\ ReverseDone /\ call.cls = "dual" /\ call.op = "base64ToFile"
    /\ prior = "browser"
    /\ ~RanInBrowser
    /\ ~base64ToArrayBuffer(call.text).ok
    /\ result.kind = "resolved"
    /\ result.val.type = "Buffer"

=============================================================================
